---- MODULE Spec2Model ----
(***************************************************************************)
(* Error tracking and alerting of payeasy: the error_groups / errors /     *)
(* alert_rules / alerts relations with the ingest_error trigger and the    *)
(* active_rule_violations view (SQL migration), captureError (capture      *)
(* utility) and processAlerts / sendNotification (alert engine).           *)
(*                                                                         *)
(* Time is counted in minutes.  UUIDs are modelled by the position of the  *)
(* row in its table.                                                       *)
(***************************************************************************)
EXTENDS Integers, Sequences, FiniteSets

VARIABLES
    clock,          \* wall clock, minutes
    error_groups,   \* public.error_groups, committed rows
    errors,         \* public.errors, committed rows
    alert_rules,    \* public.alert_rules
    alerts,         \* public.alerts
    tx,             \* captureError calls / INSERT INTO errors transactions
    run,            \* processAlerts invocations
    sent            \* history: calls of sendNotification, in order

vars == <<clock, error_groups, errors, alert_rules, alerts, tx, run, sent>>

(***************************************************************************)
(* Bounds of the model.                                                    *)
(***************************************************************************)
MaxEvents == 3       \* errors rows, ingestion specification
MaxAlertEvents == 2  \* errors rows, alerting specifications
MaxSent == 2         \* calls of sendNotification

\* the instants at which something happens
TimePoints == {0, 30, 61}
Txs == {"t1", "t2"}
Runs == {"p1", "p2"}

NULL == "NULL"

\* SQL NULL in an INTEGER column
NullInt == -1

(***************************************************************************)
(* Inputs: the rows clients insert into public.errors.  captureError       *)
(* always sends context.name and, unless extras overrides it,              *)
(* context.fingerprint; the insert policy lets any client insert a row     *)
(* without one.                                                            *)
(***************************************************************************)
\* error.stack as the lines split("\n") yields; an error without a stack
NoStack == << >>

\* a group_id the inserter puts into the row itself
SuppliedGroupId == 2

Payloads ==
    { [message |-> "m1", name |-> "TypeError", fingerprint |-> "fpA",  severity |-> "error",
       group_id |-> NullInt, stack |-> NoStack],
      [message |-> "m2", name |-> NULL,        fingerprint |-> "fpA",  severity |-> "critical",
       group_id |-> SuppliedGroupId, stack |-> NoStack],
      [message |-> "m1", name |-> "TypeError", fingerprint |-> NULL,   severity |-> "error",
       group_id |-> NullInt, stack |-> NoStack] }

\* md5(NEW.message): a digest, one per message
md5(m) == CASE m = "m1" -> "d41d8c"
            [] m = "m2" -> "9e107d"
            [] OTHER    -> "e4d909"

Statuses == {"open", "resolved", "ignored"}

(***************************************************************************)
(* The trigger ingest_error.                                               *)
(***************************************************************************)
\* a trigger that always groups by the digest of the message
GroupingKey_MessageDigest(row) == md5(row.message)

\* the grouping key of a row: NEW.context->>'fingerprint', else md5(NEW.message)
GroupingKey(row) ==
    IF row.fingerprint # NULL THEN row.fingerprint ELSE md5(row.message)

\* position of the error_groups row with this fingerprint (0: none)
GroupIndex(groups, fp) ==
    IF \E i \in 1..Len(groups) : groups[i].fingerprint = fp
    THEN CHOOSE i \in 1..Len(groups) :
            /\ groups[i].fingerprint = fp
            /\ \A j \in 1..(i - 1) : groups[j].fingerprint # fp
    ELSE 0

\* a group created with the column default of count (0) instead of 1
InsertedGroup_CountZero(id, row, now) ==
    [ id            |-> id,
      fingerprint   |-> GroupingKey(row),
      message       |-> row.message,
      name          |-> IF row.name # NULL THEN row.name ELSE "Error",
      first_seen_at |-> now,
      last_seen_at  |-> now,
      count         |-> 0,
      status        |-> "open" ]

\* INSERT INTO error_groups (fingerprint, message, name, last_seen_at, count)
\* VALUES (..., NOW(), 1); id, first_seen_at, status take the column defaults
InsertedGroup(id, row, now) ==
    [ id            |-> id,
      fingerprint   |-> GroupingKey(row),
      message       |-> row.message,
      name          |-> IF row.name # NULL THEN row.name ELSE "Error",
      first_seen_at |-> now,
      last_seen_at  |-> now,
      count         |-> 1,
      status        |-> "open" ]

\* a read-then-write update that loses the increment
ConflictUpdateExplicit_LostUpdate(g, now) ==
    [g EXCEPT !.last_seen_at = now,
              !.status = IF g.status = "resolved" THEN "open" ELSE g.status]

\* an update that reopens whatever is not open
ConflictUpdateExplicit_ReopensAny(g, now) ==
    [g EXCEPT !.last_seen_at = now,
              !.count = g.count + 1,
              !.status = "open"]

\* ON CONFLICT (fingerprint) DO UPDATE of the explicit-fingerprint branch
ConflictUpdateExplicit(g, now) ==
    [g EXCEPT !.last_seen_at = now,
              !.count = g.count + 1,
              !.status = IF g.status = "resolved" THEN "open" ELSE g.status]

\* an update that also restarts first_seen_at
ConflictUpdateFallback_ResetsFirstSeen(g, now) ==
    [g EXCEPT !.last_seen_at = now,
              !.first_seen_at = now,
              !.count = g.count + 1]

\* ON CONFLICT (fingerprint) DO UPDATE of the message-fallback branch
ConflictUpdateFallback(g, now) ==
    [g EXCEPT !.last_seen_at = now,
              !.count = g.count + 1]

\* error_groups without the UNIQUE index: every upsert inserts
Conflicts_NoUniqueIndex(groups, fp) == FALSE

\* whether the upsert finds a conflicting row (the UNIQUE index on fingerprint)
Conflicts(groups, fp) == GroupIndex(groups, fp) # 0

\* the upsert of ingest_error: the new error_groups table and v_group_id
Upsert(groups, row, now) ==
    LET fp == GroupingKey(row)
        i  == GroupIndex(groups, fp)
    IN  IF ~Conflicts(groups, fp)
        THEN [ groups |-> Append(groups, InsertedGroup(Len(groups) + 1, row, now)),
               group_id |-> Len(groups) + 1 ]
        ELSE [ groups |-> [groups EXCEPT ![i] =
                              IF row.fingerprint # NULL
                              THEN ConflictUpdateExplicit(groups[i], now)
                              ELSE ConflictUpdateFallback(groups[i], now)],
               group_id |-> groups[i].id ]

\* a trigger that keeps a group_id the inserter supplied
StoredError_KeepsSupplied(id, row, group_id, now) ==
    [ id         |-> id,
      group_id   |-> IF row.group_id # NullInt THEN row.group_id ELSE group_id,
      message    |-> row.message,
      fingerprint |-> row.fingerprint,
      severity   |-> row.severity,
      created_at |-> now ]

\* the row stored in public.errors: NEW.group_id := v_group_id; created_at DEFAULT NOW()
StoredError(id, row, group_id, now) ==
    [ id         |-> id,
      group_id   |-> group_id,
      message    |-> row.message,
      fingerprint |-> row.fingerprint,
      severity   |-> row.severity,
      created_at |-> now ]

(***************************************************************************)
(* captureError: one INSERT INTO errors per call.  The statement runs in   *)
(* its own transaction; NOW() is the transaction's start time.  The        *)
(* trigger's upsert keeps the error_groups row locked until the commit,    *)
(* so the upsert and the errors row become visible together, at commit.    *)
(***************************************************************************)
(***************************************************************************)
(* generateFingerprint.  Strings are the sequences of their UTF-16 code    *)
(* units; a JavaScript number n is the pair hi, lo with n = hi * Word + lo. *)
(***************************************************************************)
\* str.charCodeAt(i) for i = 0 .. str.length - 1
CharCodes(s) ==
    CASE s = "TypeError"     -> <<84, 121, 112, 101, 69, 114, 114, 111, 114>>
      [] s = "Error"         -> <<69, 114, 114, 111, 114>>
      [] s = "Unknown error" -> <<85, 110, 107, 110, 111, 119, 110, 32, 101, 114, 114, 111, 114>>
      [] s = "m1"            -> <<109, 49>>
      [] s = "m2"            -> <<109, 50>>
      [] s = "f1"            -> <<102, 49>>
      [] s = "f2"            -> <<102, 50>>
      [] s = "f3"            -> <<102, 51>>
      [] s = "f4"            -> <<102, 52>>
      [] s = "f9"            -> <<102, 57>>
      [] OTHER               -> << >>

\* the radix of the two-digit representation of a number
Word == 65536

\* let hash = 5381
Seed == [hi |-> 0, lo |-> 5381]

\* hash << 5: ToInt32(hash), shifted inside 32 bits, read as a signed integer
ShiftLeft5(h) ==
    LET lo32 == h.lo * 32
        hiU  == ((h.hi % Word) * 32 + lo32 \div Word) % Word
    IN  [hi |-> IF hiU >= Word \div 2 THEN hiU - Word ELSE hiU, lo |-> lo32 % Word]

\* (hash << 5) + hash + str.charCodeAt(i): the sum is not cut to 32 bits
HashStep(h, c) ==
    LET s  == ShiftLeft5(h)
        lo == s.lo + h.lo + c
    IN  [hi |-> s.hi + h.hi + lo \div Word, lo |-> lo % Word]

\* for (let i = 0; i < str.length; i++) hash = ...
RECURSIVE HashLoop(_, _)
HashLoop(h, str) ==
    IF str = << >> THEN h
    ELSE LET next == HashStep(h, Head(str))
         IN  IF next.lo \in 0..(Word - 1) THEN HashLoop(next, Tail(str)) ELSE next

HexDigit(d) ==
    CASE d = 0 -> "0" [] d = 1 -> "1" [] d = 2 -> "2" [] d = 3 -> "3"
      [] d = 4 -> "4" [] d = 5 -> "5" [] d = 6 -> "6" [] d = 7 -> "7"
      [] d = 8 -> "8" [] d = 9 -> "9" [] d = 10 -> "a" [] d = 11 -> "b"
      [] d = 12 -> "c" [] d = 13 -> "d" [] d = 14 -> "e" [] OTHER -> "f"

\* the hexadecimal digits of n >= 0, without leading zeros
RECURSIVE Hex(_)
Hex(n) == IF n < 16 THEN HexDigit(n) ELSE Hex(n \div 16) \o HexDigit(n % 16)

\* the four hexadecimal digits of a low half
Hex4(n) ==
    HexDigit(n \div 4096) \o HexDigit((n \div 256) % 16)
       \o HexDigit((n \div 16) % 16) \o HexDigit(n % 16)

\* hash.toString(16): a minus sign for a negative number, then the magnitude
toString16(h) ==
    LET neg == h.hi < 0
        mag == IF ~neg THEN h
               ELSE IF h.lo = 0 THEN [hi |-> -h.hi, lo |-> 0]
               ELSE [hi |-> -h.hi - 1, lo |-> Word - h.lo]
    IN  (IF neg THEN "-" ELSE "")
           \o (IF mag.hi = 0 THEN Hex(mag.lo) ELSE Hex(mag.hi) \o Hex4(mag.lo))

\* slice(0, 3)
StackFrames == 3

\* stack.split("\n").slice(0, 3).join("")
RECURSIVE Join(_)
Join(lines) ==
    IF lines = << >> THEN << >> ELSE CharCodes(Head(lines)) \o Join(Tail(lines))

StackLines(stack) ==
    Join(SubSeq(stack, 1, IF Len(stack) < StackFrames THEN Len(stack) ELSE StackFrames))

\* `${name}${message}${stackLines}` with the defaults "Error", "Unknown error"
FingerprintString(error) ==
    CharCodes(IF error.name # "" THEN error.name ELSE "Error")
       \o CharCodes(IF error.message # "" THEN error.message ELSE "Unknown error")
       \o StackLines(error.stack)

generateFingerprint(error) == toString16(HashLoop(Seed, FingerprintString(error)))

\* the errors handed to captureError in the fingerprint specification
Stacks == { NoStack, <<"f1", "f2", "f3">>, <<"f1", "f2", "f3", "f4">>, <<"f1", "f2", "f9">> }

FingerprintErrors == [name : {"TypeError", ""}, message : {"m1", "m2", ""}, stack : Stacks]

\* captureError(error) without a context
NoContext == [severity |-> NULL, extras |-> [fingerprint |-> NULL]]

\* the payload captureError builds: context = {name, fingerprint, ...extras}
CapturePayload(error, context) ==
    [ message     |-> error.message,
      name        |-> error.name,
      fingerprint |-> IF context.extras.fingerprint # NULL
                      THEN context.extras.fingerprint
                      ELSE generateFingerprint(error),
      severity    |-> IF context.severity # NULL THEN context.severity ELSE "error",
      group_id    |-> NullInt,
      stack       |-> error.stack ]

NoRow == [message |-> NULL, name |-> NULL, fingerprint |-> NULL, severity |-> NULL,
          group_id |-> NullInt, stack |-> NoStack]

\* via: the wrapper on whose behalf captureError runs, NULL for a direct call
IdleTx == [pc |-> "idle", now |-> 0, row |-> NoRow, persisted |-> FALSE, outcome |-> NULL,
           via |-> NULL]

\* captureError builds the payload and sends the insert; the transaction starts
CaptureError(t, p) ==
    /\ tx[t].pc \in {"idle", "returned"}
    /\ tx[t].via = NULL
    /\ Len(errors) + Cardinality({u \in Txs : tx[u].pc = "begun"}) < MaxEvents
    /\ tx' = [tx EXCEPT ![t] = [pc |-> "begun", now |-> clock, row |-> p,
                                persisted |-> FALSE, outcome |-> NULL, via |-> NULL]]
    /\ UNCHANGED <<clock, error_groups, errors, alert_rules, alerts, run, sent>>

\* what the caller of captureError observes when the insert succeeded
CaptureOutcomeOk == "resolved"

\* a captureError that lets the failure of the insert out
CaptureOutcomeFailed_Rejects == "rejected"

\* what the caller of captureError observes when the insert failed:
\* insertError is logged, a thrown error is caught and logged
CaptureOutcomeFailed == "resolved"

\* the trigger fires, the row is inserted, the transaction commits
InsertCommit(t) ==
    /\ tx[t].pc = "begun"
    /\ LET u == Upsert(error_groups, tx[t].row, tx[t].now)
       IN  /\ error_groups' = u.groups
           /\ errors' = Append(errors,
                   StoredError(Len(errors) + 1, tx[t].row, u.group_id, tx[t].now))
    /\ tx' = [tx EXCEPT ![t] = [IdleTx EXCEPT !.pc = "returned", !.persisted = TRUE,
                                              !.outcome = CaptureOutcomeOk,
                                              !.via = tx[t].via]]
    /\ UNCHANGED <<clock, alert_rules, alerts, run, sent>>

\* the insert fails (storage unavailable, policy or constraint violation):
\* the transaction rolls back, trigger's upsert included
InsertFail(t) ==
    /\ tx[t].pc = "begun"
    /\ tx' = [tx EXCEPT ![t] = [IdleTx EXCEPT !.pc = "returned", !.persisted = FALSE,
                                              !.outcome = CaptureOutcomeFailed,
                                              !.via = tx[t].via]]
    /\ UNCHANGED <<clock, error_groups, errors, alert_rules, alerts, run, sent>>

(***************************************************************************)
(* withErrorCapture.                                                       *)
(***************************************************************************)
\* the context the wrapper passes: severity "critical", extras {method, headers}
WrapperContext == [severity |-> "critical", extras |-> [fingerprint |-> NULL]]

\* the handler throws: catch (error) { getUserId(request); await captureError(...)
HandlerThrows(t, e) ==
    /\ tx[t].pc \in {"idle", "returned"}
    /\ tx[t].via = NULL
    /\ Len(errors) + Cardinality({u \in Txs : tx[u].pc = "begun"}) < MaxEvents
    /\ tx' = [tx EXCEPT ![t] = [pc |-> "begun", now |-> clock,
                                row |-> CapturePayload(e, WrapperContext),
                                persisted |-> FALSE, outcome |-> NULL,
                                via |-> "withErrorCapture"]]
    /\ UNCHANGED <<clock, error_groups, errors, alert_rules, alerts, run, sent>>

\* captureError is back: return errorResponse(..., 500) when it resolved; a
\* rejection would leave the catch block as an exception
WrapperReturns(t) ==
    /\ tx[t].pc = "returned"
    /\ tx[t].via = "withErrorCapture"
    /\ tx' = [tx EXCEPT ![t].outcome = IF tx[t].outcome = "resolved" THEN "500"
                                       ELSE "escaped",
                        ![t].via = NULL]
    /\ UNCHANGED <<clock, error_groups, errors, alert_rules, alerts, run, sent>>

\* return await handler(request, ...args) when the handler does not throw
HandlerReturns(t) ==
    /\ tx[t].pc \in {"idle", "returned"}
    /\ tx[t].via = NULL
    /\ tx' = [tx EXCEPT ![t] = [IdleTx EXCEPT !.pc = "returned", !.outcome = "200"]]
    /\ UNCHANGED <<clock, error_groups, errors, alert_rules, alerts, run, sent>>

\* an insert that no other transaction overlaps: started and committed at once
InsertNow(t, p) ==
    /\ tx[t].pc \in {"idle", "returned"}
    /\ Len(errors) < MaxAlertEvents
    /\ LET u == Upsert(error_groups, p, clock)
       IN  /\ error_groups' = u.groups
           /\ errors' = Append(errors, StoredError(Len(errors) + 1, p, u.group_id, clock))
    /\ tx' = [tx EXCEPT ![t] = [IdleTx EXCEPT !.pc = "returned", !.persisted = TRUE,
                                              !.outcome = CaptureOutcomeOk]]
    /\ UNCHANGED <<clock, alert_rules, alerts, run, sent>>

(***************************************************************************)
(* Operators edit error_groups.status (open | resolved | ignored).         *)
(***************************************************************************)
SetStatus(i, s) ==
    /\ i \in 1..Len(error_groups)
    /\ error_groups[i].status # s
    /\ error_groups' = [error_groups EXCEPT ![i].status = s]
    /\ UNCHANGED <<clock, errors, alert_rules, alerts, tx, run, sent>>

Tick(d) ==
    /\ d > clock
    /\ clock' = d
    /\ UNCHANGED <<error_groups, errors, alert_rules, alerts, tx, run, sent>>

(***************************************************************************)
(* Operators edit alert_rules.active.                                      *)
(***************************************************************************)
Rules ==
    [ r1 |-> [ id |-> "r1", condition_type |-> "threshold", threshold_count |-> 2,
               time_window_minutes |-> 15, channel |-> "slack",
               channel_webhook_url |-> "https://hooks/1", active |-> TRUE ],
      r2 |-> [ id |-> "r2", condition_type |-> "threshold", threshold_count |-> 1,
               time_window_minutes |-> 60, channel |-> "email",
               channel_webhook_url |-> NULL, active |-> TRUE ],
      r3 |-> [ id |-> "r3", condition_type |-> "new_error", threshold_count |-> NullInt,
               time_window_minutes |-> NullInt, channel |-> "slack",
               channel_webhook_url |-> "https://hooks/3", active |-> TRUE ],
      r4 |-> [ id |-> "r4", condition_type |-> "critical", threshold_count |-> NullInt,
               time_window_minutes |-> NullInt, channel |-> "webhook",
               channel_webhook_url |-> "https://hooks/4", active |-> TRUE ],
      r5 |-> [ id |-> "r5", condition_type |-> "threshold", threshold_count |-> 1,
               time_window_minutes |-> 60, channel |-> "slack",
               channel_webhook_url |-> "https://hooks/5", active |-> FALSE ] ]

RuleIds == DOMAIN Rules

\* the rules the operator switches on and off
EditedRules == {"r1"}

SetActive(r, b) ==
    /\ alert_rules[r].active # b
    /\ alert_rules' = [alert_rules EXCEPT ![r].active = b]
    /\ UNCHANGED <<clock, error_groups, errors, alerts, tx, run, sent>>

(***************************************************************************)
(* The view active_rule_violations.                                        *)
(***************************************************************************)
\* a window that is decided by the group's latest update, not by the event
InWindow_ByLastSeen(e, eg, ar, now) ==
    /\ e.group_id = eg.id
    /\ ar.time_window_minutes # NullInt
    /\ eg.last_seen_at > now - ar.time_window_minutes

\* LEFT JOIN errors e ON e.group_id = eg.id AND e.created_at > NOW() - window
InWindow(e, eg, ar, now) ==
    /\ e.group_id = eg.id
    /\ ar.time_window_minutes # NullInt
    /\ e.created_at > now - ar.time_window_minutes

\* COUNT(e.id) of the rows joined to (ar, eg)
WindowCount(ar, eg, errs, now) ==
    Cardinality({k \in 1..Len(errs) : InWindow(errs[k], eg, ar, now)})

\* a join that forgets the status of the group
Joined_AnyStatus(ar, eg) ==
    /\ ar.active = TRUE
    /\ ar.condition_type = "threshold"

\* JOIN error_groups eg ON eg.status = 'open'
\* WHERE ar.active = TRUE AND ar.condition_type = 'threshold'
Joined(ar, eg) ==
    /\ eg.status = "open"
    /\ ar.active = TRUE
    /\ ar.condition_type = "threshold"

\* HAVING with > in place of >=
Having_StrictlyMore(ar, window_count) ==
    /\ ar.threshold_count # NullInt
    /\ window_count > ar.threshold_count

\* HAVING COUNT(e.id) >= ar.threshold_count
Having(ar, window_count) ==
    /\ ar.threshold_count # NullInt
    /\ window_count >= ar.threshold_count

\* the rows of the view, one per GROUP BY ar.id, eg.id, eg.message, eg.count
ActiveRuleViolations(rules, groups, errs, now) ==
    { [ rule_id      |-> rules[r].id,
        group_id     |-> groups[i].id,
        message      |-> groups[i].message,
        total_count  |-> groups[i].count,
        window_count |-> WindowCount(rules[r], groups[i], errs, now) ] :
      <<r, i>> \in { ri \in (DOMAIN rules) \X (1..Len(groups)) :
                       /\ Joined(rules[ri[1]], groups[ri[2]])
                       /\ Having(rules[ri[1]],
                                 WindowCount(rules[ri[1]], groups[ri[2]], errs, now)) } }

(***************************************************************************)
(* processAlerts.  Every await is a step; runs are started by cron or by   *)
(* error insertion and nothing keeps two of them from overlapping.         *)
(***************************************************************************)
CooldownMinutes == 60   \* 60 * 60 * 1000 ms

NoViolation == [rule_id |-> NULL, group_id |-> 0, message |-> NULL,
                total_count |-> 0, window_count |-> 0]

NoRule == [id |-> NULL, condition_type |-> NULL, threshold_count |-> NullInt,
           time_window_minutes |-> NullInt, channel |-> NULL,
           channel_webhook_url |-> NULL, active |-> FALSE]

IdleRun == [pc |-> "idle", violations |-> {}, violation |-> NoViolation, rule |-> NoRule,
            attempt |-> 0]

\* the query without .eq("rule_id", ...)
RecentAlerts_AnyRule(rows, violation, now) ==
    {k \in 1..Len(rows) :
        /\ rows[k].group_id = violation.group_id
        /\ rows[k].created_at > now - CooldownMinutes}

\* the query without .gt("created_at", ...): a pair alerted once is never
\* alerted again
RecentAlerts_AnyAge(rows, violation, now) ==
    {k \in 1..Len(rows) :
        /\ rows[k].rule_id = violation.rule_id
        /\ rows[k].group_id = violation.group_id}

\* .eq("rule_id", ...).eq("group_id", ...).gt("created_at", Date.now() - 60 min)
RecentAlerts(rows, violation, now) ==
    {k \in 1..Len(rows) :
        /\ rows[k].rule_id = violation.rule_id
        /\ rows[k].group_id = violation.group_id
        /\ rows[k].created_at > now - CooldownMinutes}

\* `continue`, or the end of the for loop
Continue(r) ==
    [r EXCEPT !.pc = IF r.violations = {} THEN "idle" ELSE "loop",
              !.violation = NoViolation, !.rule = NoRule, !.attempt = 0]

\* the positions in which no invocation is executing: before the first
\* invocation and after the loop ("idle"), after `if (viewError) return`
\* ("aborted")
NotRunning == {"idle", "aborted"}

\* 1. fetch the violations from the view
FetchViolations(p) ==
    /\ run[p].pc \in NotRunning
    /\ Len(sent) + Cardinality(ActiveRuleViolations(alert_rules, error_groups, errors, clock))
          <= MaxSent
    /\ LET violations == ActiveRuleViolations(alert_rules, error_groups, errors, clock)
       IN  run' = [run EXCEPT ![p] =
                     IF violations = {}
                     THEN IdleRun
                     ELSE [IdleRun EXCEPT !.pc = "loop", !.violations = violations]]
    /\ UNCHANGED <<clock, error_groups, errors, alert_rules, alerts, tx, sent>>

\* a run that goes on with the rows it has after viewError
FetchViolationsError_GoesOn(p) ==
    /\ run[p].pc \in NotRunning
    /\ ActiveRuleViolations(alert_rules, error_groups, errors, clock) # {}
    /\ Len(sent) + Cardinality(ActiveRuleViolations(alert_rules, error_groups, errors, clock))
          <= MaxSent
    /\ run' = [run EXCEPT ![p] =
                 [IdleRun EXCEPT !.pc = "loop",
                                 !.violations = ActiveRuleViolations(alert_rules,
                                                    error_groups, errors, clock)]]
    /\ UNCHANGED <<clock, error_groups, errors, alert_rules, alerts, tx, sent>>

\* if (viewError) return
FetchViolationsError(p) ==
    /\ run[p].pc \in NotRunning
    /\ run' = [run EXCEPT ![p] = [IdleRun EXCEPT !.pc = "aborted"]]
    /\ UNCHANGED <<clock, error_groups, errors, alert_rules, alerts, tx, sent>>

\* 2. the next violation of the loop: the query on alerts
CheckRecentAlerts(p, v) ==
    /\ run[p].pc = "loop"
    /\ v \in run[p].violations
    /\ LET rest == [run[p] EXCEPT !.violations = @ \ {v}]
       IN  run' = [run EXCEPT ![p] =
                     IF RecentAlerts(alerts, v, clock) # {}
                     THEN Continue(rest)
                     ELSE [rest EXCEPT !.pc = "rule", !.violation = v]]
    /\ UNCHANGED <<clock, error_groups, errors, alert_rules, alerts, tx, sent>>

\* if (alertError) continue
CheckRecentAlertsError(p, v) ==
    /\ run[p].pc = "loop"
    /\ v \in run[p].violations
    /\ run' = [run EXCEPT ![p] =
                 Continue([run[p] EXCEPT !.violations = @ \ {v}])]
    /\ UNCHANGED <<clock, error_groups, errors, alert_rules, alerts, tx, sent>>

\* 3. load the rule row
LoadRule(p) ==
    /\ run[p].pc = "rule"
    /\ run' = [run EXCEPT ![p].pc = "send",
                          ![p].rule = alert_rules[run[p].violation.rule_id]]
    /\ UNCHANGED <<clock, error_groups, errors, alert_rules, alerts, tx, sent>>

\* `return` in place of `continue`: the rest of the batch is dropped
LoadRuleError_Returns(p) ==
    /\ run[p].pc = "rule"
    /\ run' = [run EXCEPT ![p] = IdleRun]
    /\ UNCHANGED <<clock, error_groups, errors, alert_rules, alerts, tx, sent>>

\* if (!rule) continue
LoadRuleError(p) ==
    /\ run[p].pc = "rule"
    /\ run' = [run EXCEPT ![p] = Continue(run[p])]
    /\ UNCHANGED <<clock, error_groups, errors, alert_rules, alerts, tx, sent>>

(***************************************************************************)
(* sendNotification.                                                       *)
(***************************************************************************)
\* the branch taken: an HTTP POST only for slack with a webhook url
PostsHttp(rule) == rule.channel = "slack" /\ rule.channel_webhook_url # NULL

\* what fetch can do: resolve with a 2xx or a non-2xx response, or reject
FetchOutcomes == {"ok", "non2xx", "threw"}

\* a dispatch whose rejected fetch is not caught: the exception leaves
\* processAlerts and the rest of the batch is dropped
SendNotification_Rethrows(p, o) ==
    /\ run[p].pc = "send"
    /\ o \in (IF PostsHttp(run[p].rule) THEN FetchOutcomes ELSE {"console"})
    /\ sent' = Append(sent, [ rule_id  |-> run[p].violation.rule_id,
                              group_id |-> run[p].violation.group_id,
                              at       |-> clock,
                              http     |-> PostsHttp(run[p].rule),
                              outcome  |-> o ])
    /\ run' = [run EXCEPT ![p] = IF o = "threw" THEN IdleRun
                                 ELSE [run[p] EXCEPT !.pc = "log",
                                                     !.attempt = Len(sent) + 1]]
    /\ UNCHANGED <<clock, error_groups, errors, alert_rules, alerts, tx>>

SendNotification(p, o) ==
    /\ run[p].pc = "send"
    /\ o \in (IF PostsHttp(run[p].rule) THEN FetchOutcomes ELSE {"console"})
    /\ sent' = Append(sent, [ rule_id  |-> run[p].violation.rule_id,
                              group_id |-> run[p].violation.group_id,
                              at       |-> clock,
                              http     |-> PostsHttp(run[p].rule),
                              outcome  |-> o ])
    /\ run' = [run EXCEPT ![p].pc = "log", ![p].attempt = Len(sent) + 1]
    /\ UNCHANGED <<clock, error_groups, errors, alert_rules, alerts, tx>>

\* await fetch(...) without a signal or a timeout: the promise of a POST that
\* is never answered never settles, and the invocation stays at the await
FetchHangs(p) ==
    /\ run[p].pc = "send"
    /\ PostsHttp(run[p].rule)
    /\ sent' = Append(sent, [ rule_id  |-> run[p].violation.rule_id,
                              group_id |-> run[p].violation.group_id,
                              at       |-> clock,
                              http     |-> TRUE,
                              outcome  |-> "pending" ])
    /\ run' = [run EXCEPT ![p].pc = "hung", ![p].attempt = Len(sent) + 1]
    /\ UNCHANGED <<clock, error_groups, errors, alert_rules, alerts, tx>>

\* the value of the notified column in the inserted alerts row
Notified(outcome) == TRUE

\* a run that also resolves the group it has alerted on
LogAlert_ResolvesGroup(p) ==
    /\ run[p].pc = "log"
    /\ alerts' = Append(alerts, [ rule_id       |-> run[p].violation.rule_id,
                                  group_id      |-> run[p].violation.group_id,
                                  created_at    |-> clock,
                                  notified      |-> Notified(sent[run[p].attempt].outcome),
                                  error_message |-> run[p].violation.message ])
    /\ error_groups' = [i \in 1..Len(error_groups) |->
                          IF error_groups[i].id = run[p].violation.group_id
                          THEN [error_groups[i] EXCEPT !.status = "resolved"]
                          ELSE error_groups[i]]
    /\ run' = [run EXCEPT ![p] = Continue(run[p])]
    /\ UNCHANGED <<clock, errors, alert_rules, tx, sent>>

\* 4. supabase.from("alerts").insert({...}); created_at DEFAULT NOW()
LogAlert(p) ==
    /\ run[p].pc = "log"
    /\ alerts' = Append(alerts, [ rule_id       |-> run[p].violation.rule_id,
                                  group_id      |-> run[p].violation.group_id,
                                  created_at    |-> clock,
                                  notified      |-> Notified(sent[run[p].attempt].outcome),
                                  error_message |-> run[p].violation.message ])
    /\ run' = [run EXCEPT ![p] = Continue(run[p])]
    /\ UNCHANGED <<clock, error_groups, errors, alert_rules, tx, sent>>

\* the insert fails; its result is not looked at
LogAlertError(p) ==
    /\ run[p].pc = "log"
    /\ run' = [run EXCEPT ![p] = Continue(run[p])]
    /\ UNCHANGED <<clock, error_groups, errors, alert_rules, alerts, tx, sent>>

AllViolations ==
    UNION {run[p].violations : p \in Runs}

Init ==
    /\ clock = 0
    /\ error_groups = << >>
    /\ errors = << >>
    /\ alert_rules = Rules
    /\ alerts = << >>
    /\ tx = [t \in Txs |-> IdleTx]
    /\ run = [p \in Runs |-> IdleRun]
    /\ sent = << >>

NextIngest ==
    \/ \E t \in Txs, p \in Payloads : CaptureError(t, p)
    \/ \E t \in Txs : InsertCommit(t)
    \/ \E t \in Txs : InsertFail(t)
    \/ \E i \in 1..MaxEvents, s \in Statuses : SetStatus(i, s)
    \/ \E d \in TimePoints : Tick(d)

SpecIngest == Init /\ [][NextIngest]_vars

\* ingestion with overlapping transactions while operators edit groups and rules
NextEvaluate ==
    \/ NextIngest
    \/ \E r \in EditedRules, b \in BOOLEAN : SetActive(r, b)

SpecEvaluate == Init /\ [][NextEvaluate]_vars

\* the transactions of the alerting specification
AlertTxs == {"t1"}

\* the statuses the operator sets in the alerting specifications
AlertStatuses == {"open", "resolved"}

\* the rows inserted in the alerting specifications
AlertPayloads == {q \in Payloads : q.message = "m1"}

\* the processAlerts invocations of the specification without overlap
OneRun == {"p1"}

NextAlerts ==
    \/ \E t \in AlertTxs, p \in AlertPayloads : InsertNow(t, p)
    \/ \E i \in 1..MaxAlertEvents, s \in AlertStatuses : SetStatus(i, s)
    \/ \E d \in TimePoints : Tick(d)
    \/ \E p \in OneRun : FetchViolations(p)
    \/ \E p \in OneRun : FetchViolationsError(p)
    \/ \E p \in OneRun, v \in AllViolations : CheckRecentAlerts(p, v)
    \/ \E p \in OneRun, v \in AllViolations : CheckRecentAlertsError(p, v)
    \/ \E p \in OneRun : LoadRule(p)
    \/ \E p \in OneRun : LoadRuleError(p)
    \/ \E p \in OneRun, o \in FetchOutcomes \cup {"console"} : SendNotification(p, o)
    \/ \E p \in OneRun : LogAlert(p)
    \/ \E p \in OneRun : LogAlertError(p)

Spec == Init /\ [][NextAlerts]_vars

(***************************************************************************)
(* Rules of every channel the CHECK constraint admits, each with a url.    *)
(***************************************************************************)
ChannelRules ==
    [Rules EXCEPT !["r2"].channel = "webhook",
                  !["r2"].channel_webhook_url = "https://hooks/2"]

InitChannels ==
    /\ clock = 0
    /\ error_groups = << >>
    /\ errors = << >>
    /\ alert_rules = ChannelRules
    /\ alerts = << >>
    /\ tx = [t \in Txs |-> IdleTx]
    /\ run = [p \in Runs |-> IdleRun]
    /\ sent = << >>

SpecChannels == InitChannels /\ [][NextAlerts]_vars

(***************************************************************************)
(* One processAlerts run whose webhook may never answer; storage answers   *)
(* every query.  The event loop resumes the run whenever the awaited       *)
(* promise has settled.                                                    *)
(***************************************************************************)
RunStep(p) ==
    \/ \E v \in AllViolations : CheckRecentAlerts(p, v)
    \/ LoadRule(p)
    \/ \E o \in FetchOutcomes \cup {"console"} : SendNotification(p, o)
    \/ FetchHangs(p)
    \/ LogAlert(p)

NextHang ==
    \/ \E t \in AlertTxs, p \in AlertPayloads : InsertNow(t, p)
    \/ \E d \in TimePoints : Tick(d)
    \/ \E p \in OneRun : FetchViolations(p)
    \/ \E p \in OneRun : RunStep(p)

SpecHang == Init /\ [][NextHang]_vars /\ \A p \in OneRun : WF_vars(RunStep(p))

(***************************************************************************)
(* captureError called with errors of every shape; the inserts fail, so    *)
(* only the payloads differ.                                               *)
(***************************************************************************)
\* the errors thrown in the capture specification
ThrownErrors ==
    { e \in FingerprintErrors : e.name = "TypeError" /\ e.message \in {"m1", "m2"}
                                   /\ e.stack = <<"f1", "f2", "f3">> }

\* captureError(error, {extras}) with and without a fingerprint of the caller
Contexts == { NoContext, [severity |-> NULL, extras |-> [fingerprint |-> "fpA"]] }

NextFingerprint ==
    \/ \E t \in Txs, e \in FingerprintErrors : CaptureError(t, CapturePayload(e, NoContext))
    \/ \E t \in Txs : InsertFail(t)

SpecFingerprint == Init /\ [][NextFingerprint]_vars

(***************************************************************************)
(* Route handlers under withErrorCapture next to direct captureError       *)
(* calls; inserts commit or fail.                                          *)
(***************************************************************************)
NextCapture ==
    \/ \E t \in AlertTxs, e \in ThrownErrors, c \in Contexts :
          CaptureError(t, CapturePayload(e, c))
    \/ \E t \in AlertTxs, e \in ThrownErrors : HandlerThrows(t, e)
    \/ \E t \in AlertTxs : HandlerReturns(t)
    \/ \E t \in AlertTxs : InsertCommit(t)
    \/ \E t \in AlertTxs : InsertFail(t)
    \/ \E t \in AlertTxs : WrapperReturns(t)

SpecCapture == Init /\ [][NextCapture]_vars

(***************************************************************************)
(* One processAlerts run, events of every severity, rules of every         *)
(* condition_type; storage answers every query.                            *)
(***************************************************************************)
NextConditions ==
    \/ \E t \in AlertTxs, p \in Payloads : InsertNow(t, p)
    \/ \E d \in TimePoints : Tick(d)
    \/ \E p \in OneRun : FetchViolations(p)
    \/ \E p \in OneRun, v \in AllViolations : CheckRecentAlerts(p, v)
    \/ \E p \in OneRun : LoadRule(p)
    \/ \E p \in OneRun, o \in FetchOutcomes \cup {"console"} : SendNotification(p, o)
    \/ \E p \in OneRun : LogAlert(p)

SpecConditions == Init /\ [][NextConditions]_vars

(***************************************************************************)
(* One processAlerts run while operators resolve, ignore and reopen groups *)
(* and switch rules off and on; storage answers every query.               *)
(***************************************************************************)
NextStale ==
    \/ \E t \in AlertTxs, p \in AlertPayloads : InsertNow(t, p)
    \/ \E i \in 1..MaxAlertEvents, s \in Statuses : SetStatus(i, s)
    \/ \E r \in EditedRules, b \in BOOLEAN : SetActive(r, b)
    \/ \E p \in OneRun : FetchViolations(p)
    \/ \E p \in OneRun, v \in AllViolations : CheckRecentAlerts(p, v)
    \/ \E p \in OneRun : LoadRule(p)
    \/ \E p \in OneRun, o \in FetchOutcomes \cup {"console"} : SendNotification(p, o)
    \/ \E p \in OneRun : LogAlert(p)

SpecStale == Init /\ [][NextStale]_vars

(***************************************************************************)
(* Overlapping processAlerts runs (cron and insertion triggers both start  *)
(* runs); storage answers every query.                                     *)
(***************************************************************************)
NextOverlap ==
    \/ \E t \in AlertTxs, p \in AlertPayloads : InsertNow(t, p)
    \/ \E d \in TimePoints : Tick(d)
    \/ \E p \in Runs : FetchViolations(p)
    \/ \E p \in Runs, v \in AllViolations : CheckRecentAlerts(p, v)
    \/ \E p \in Runs : LoadRule(p)
    \/ \E p \in Runs, o \in FetchOutcomes \cup {"console"} : SendNotification(p, o)
    \/ \E p \in Runs : LogAlert(p)

SpecOverlap == Init /\ [][NextOverlap]_vars

(***************************************************************************)
(* Grouping store: properties of ingestion (SpecIngest).                   *)
(***************************************************************************)
\* the errors rows linked to the group with this id
LinkedErrors(id) == {k \in 1..Len(errors) : errors[k].group_id = id}

\* C1: in every reachable state each group's count equals the number of
\* errors rows whose group_id references it, whatever the interleaving of
\* the insertions (no lost update).
C1_CountEqualsLinkedErrors ==
    \A i \in 1..Len(error_groups) :
        error_groups[i].count = Cardinality(LinkedErrors(error_groups[i].id))

\* two insertions with one fingerprint overlapped and both committed
C1_Witness ==
    /\ \A t \in Txs : tx[t].pc = "returned" /\ tx[t].persisted
    /\ \E i \in 1..Len(error_groups) :
          /\ error_groups[i].count = MaxEvents
          /\ error_groups[i].last_seen_at < error_groups[i].first_seen_at

\* C4: a row recorded for an existing resolved group leaves the group open,
\* with an explicit fingerprint and with the message fallback alike.
C4_ResolvedGroupReopens ==
    [][\A t \in Txs :
          (tx[t].pc = "begun" /\ tx'[t].pc = "returned" /\ tx'[t].persisted) =>
             \A i \in 1..Len(error_groups) :
                (/\ error_groups[i].fingerprint = GroupingKey(tx[t].row)
                 /\ error_groups[i].status = "resolved")
                   => error_groups'[i].status = "open"]_vars

\* C8: when persisting an event fails, nothing is recorded and the caller of
\* captureError observes an outcome other than that of a successful capture.
C8_FailureSignalled ==
    [][\A t \in Txs :
          (tx[t].pc = "begun" /\ tx'[t].pc = "returned" /\ ~tx'[t].persisted) =>
             /\ errors' = errors
             /\ error_groups' = error_groups
             /\ tx'[t].outcome # CaptureOutcomeOk]_vars

\* C9: one group per ingested fingerprint: groups have pairwise distinct
\* fingerprints, every errors row is linked to the group of its own
\* fingerprint, and there are as many groups as distinct fingerprints.
C9_OneGroupPerFingerprint ==
    /\ \A i, j \in 1..Len(error_groups) :
          i # j => /\ error_groups[i].fingerprint # error_groups[j].fingerprint
                   /\ error_groups[i].id # error_groups[j].id
    /\ \A k \in 1..Len(errors) :
          \E i \in 1..Len(error_groups) :
             /\ error_groups[i].id = errors[k].group_id
             /\ error_groups[i].fingerprint =
                   (IF errors[k].fingerprint # NULL THEN errors[k].fingerprint
                    ELSE md5(errors[k].message))
    /\ Len(error_groups) =
          Cardinality({ IF errors[k].fingerprint # NULL THEN errors[k].fingerprint
                        ELSE md5(errors[k].message) : k \in 1..Len(errors) })

\* two fingerprints ingested, one of them more than once
C9_Witness ==
    /\ Len(error_groups) = 2
    /\ Len(errors) = MaxEvents

\* C10: every group has last_seen_at >= first_seen_at, and a group created by
\* its first event has first_seen_at = last_seen_at.
C10_LastSeenNotBeforeFirstSeen ==
    \A i \in 1..Len(error_groups) :
        /\ error_groups[i].last_seen_at >= error_groups[i].first_seen_at
        /\ error_groups[i].count = 1 =>
              error_groups[i].first_seen_at = error_groups[i].last_seen_at

(***************************************************************************)
(* Rule evaluation, dedup and dispatch (Spec, SpecOverlap).                *)
(***************************************************************************)
\* C2: no two notifications for one (rule, group) pair are sent less than 60
\* minutes apart, also when processAlerts runs overlap (stated for the
\* notifications that leave the process, the HTTP POSTs).
C2_OneNotificationPerCooldown ==
    \A m, n \in 1..Len(sent) :
        (/\ m < n
         /\ sent[m].http /\ sent[n].http
         /\ sent[m].rule_id = sent[n].rule_id
         /\ sent[m].group_id = sent[n].group_id)
           => sent[n].at - sent[m].at >= 60

\* C3: when the ledger query answers, the violation (r, g) is suppressed if
\* and only if an alerts row with rule_id = r and group_id = g is less than 60
\* minutes old; rows of other rules or groups and older rows do not count.
C3_SuppressIffRecentRecord ==
    [][\A p \in Runs, v \in AllViolations :
          CheckRecentAlerts(p, v) =>
             ((run'[p].pc # "rule") <=>
                 \E k \in 1..Len(alerts) :
                    /\ alerts[k].rule_id = v.rule_id
                    /\ alerts[k].group_id = v.group_id
                    /\ clock - alerts[k].created_at < 60)]_vars

\* a violation goes on to dispatch although its pair has a record: the record
\* is 61 minutes old
C3_Witness ==
    \E p \in Runs :
        /\ run[p].pc = "rule"
        /\ \E k \in 1..Len(alerts) :
              /\ alerts[k].rule_id = run[p].violation.rule_id
              /\ alerts[k].group_id = run[p].violation.group_id
              /\ clock - alerts[k].created_at = 61

\* C5: the view holds the pair (rule, group) exactly once if the rule is an
\* active threshold rule, the group is open and at least threshold_count of
\* the group's events are younger than time_window_minutes, and not at all
\* otherwise.
C5_ViolationIffThresholdReached ==
    LET view == ActiveRuleViolations(alert_rules, error_groups, errors, clock)
    IN  /\ \A v \in view :
              /\ v.rule_id \in DOMAIN alert_rules
              /\ \E i \in 1..Len(error_groups) : error_groups[i].id = v.group_id
        /\ \A r \in DOMAIN alert_rules, i \in 1..Len(error_groups) :
              LET rows == {v \in view : /\ v.rule_id = r
                                        /\ v.group_id = error_groups[i].id}
                  fires ==
                    /\ alert_rules[r].active
                    /\ alert_rules[r].condition_type = "threshold"
                    /\ error_groups[i].status = "open"
                    /\ Cardinality({k \in 1..Len(errors) :
                          /\ errors[k].group_id = error_groups[i].id
                          /\ clock - errors[k].created_at
                                < alert_rules[r].time_window_minutes})
                          >= alert_rules[r].threshold_count
              IN  Cardinality(rows) = (IF fires THEN 1 ELSE 0)

\* threshold 2, window 15: a group with exactly two events in the window is a
\* violation of r1, while an open group with one event in the window is not
C5_Witness ==
    LET view == ActiveRuleViolations(alert_rules, error_groups, errors, clock)
    IN  /\ \E v \in view : v.rule_id = "r1" /\ v.window_count = 2
        /\ \E i \in 1..Len(error_groups) : error_groups[i].count = 2

\* C6: every call of sendNotification is followed by exactly one new alerts
\* row for its (rule, group), written by the same run.
C6_OneRecordPerAttempt ==
    [][\A p \in Runs :
          (run[p].pc = "log" /\ run'[p].pc # "log") =>
             /\ Len(alerts') = Len(alerts) + 1
             /\ alerts'[Len(alerts')].rule_id = run[p].violation.rule_id
             /\ alerts'[Len(alerts')].group_id = run[p].violation.group_id]_vars

\* C7: the alerts row of an attempt has notified = TRUE exactly when the send
\* succeeded; an unreachable channel or a non-2xx answer gives FALSE.
C7_NotifiedReflectsOutcome ==
    [][\A p \in Runs :
          (run[p].pc = "log" /\ run'[p].pc # "log" /\ Len(alerts') = Len(alerts) + 1) =>
             (alerts'[Len(alerts')].notified
                 <=> sent[run[p].attempt].outcome \in {"ok", "console"})]_vars

(***************************************************************************)
(* Grouping store, continued (SpecIngest).                                 *)
(***************************************************************************)
\* C11: a row recorded for an existing ignored group leaves the status
\* ignored and raises count by exactly one.
C11_IgnoredStaysIgnored ==
    [][\A t \in Txs :
          (tx[t].pc = "begun" /\ tx'[t].pc = "returned" /\ tx'[t].persisted) =>
             \A i \in 1..Len(error_groups) :
                (/\ error_groups[i].fingerprint = GroupingKey(tx[t].row)
                 /\ error_groups[i].status = "ignored")
                   => /\ error_groups'[i].status = "ignored"
                      /\ error_groups'[i].count = error_groups[i].count + 1]_vars

\* an ignored group that was seen again after its creation
C11_Witness ==
    \E i \in 1..Len(error_groups) :
        /\ error_groups[i].status = "ignored"
        /\ error_groups[i].count >= 2
        /\ error_groups[i].last_seen_at > error_groups[i].first_seen_at
        /\ \E t \in Txs : tx[t].pc = "returned" /\ tx[t].persisted

\* C12: every errors row carries a group_id that is not NULL and is the id of
\* the one group whose fingerprint is the row's fingerprint
\* (context.fingerprint, else the digest of the message), whatever group_id
\* the inserter supplied.
C12_RowLinkedToItsGroup ==
    \A k \in 1..Len(errors) :
        /\ errors[k].group_id # NullInt
        /\ \A i \in 1..Len(error_groups) :
              (error_groups[i].id = errors[k].group_id)
                 <=> (error_groups[i].fingerprint =
                         (IF errors[k].fingerprint # NULL THEN errors[k].fingerprint
                          ELSE md5(errors[k].message)))

\* a stored row whose inserter supplied the id of the other group
C12_Witness ==
    \E k \in 1..Len(errors) :
        /\ errors[k].message = "m2"
        /\ errors[k].group_id # SuppliedGroupId
        /\ Len(error_groups) >= SuppliedGroupId

(***************************************************************************)
(* The view, evaluated while transactions overlap and operators edit       *)
(* groups and rules (SpecEvaluate).                                        *)
(***************************************************************************)
\* C13: every row of the view names a rule that is active and a group that
\* is open at the time of evaluation; an inactive rule, a resolved group or
\* an ignored group is in no row, whatever its events.
C13_OnlyActiveRulesOpenGroups ==
    LET view == ActiveRuleViolations(alert_rules, error_groups, errors, clock)
    IN  \A v \in view :
           /\ alert_rules[v.rule_id].active
           /\ \A i \in 1..Len(error_groups) :
                 error_groups[i].id = v.group_id => error_groups[i].status = "open"

\* the rule r1 is switched off while an open group has reached its threshold,
\* and an ignored group has an event inside the window of r2
C13_Witness ==
    /\ ~alert_rules["r1"].active
    /\ \E i \in 1..Len(error_groups) :
          /\ error_groups[i].status = "open"
          /\ Cardinality({k \in 1..Len(errors) :
                /\ errors[k].group_id = error_groups[i].id
                /\ errors[k].created_at > clock - 15}) >= 2
    /\ \E i \in 1..Len(error_groups) :
          /\ error_groups[i].status = "ignored"
          /\ \E k \in 1..Len(errors) :
                /\ errors[k].group_id = error_groups[i].id
                /\ errors[k].created_at > clock - 60

\* C20: the window count of a view row is the number of the group's events
\* whose own created_at is younger than the rule's window, whatever the order
\* in which the events were inserted.
C20_CountedByCreatedAt ==
    LET view == ActiveRuleViolations(alert_rules, error_groups, errors, clock)
    IN  /\ \A v \in view :
              v.window_count =
                 Cardinality({k \in 1..Len(errors) :
                    /\ errors[k].group_id = v.group_id
                    /\ errors[k].created_at >
                          clock - alert_rules[v.rule_id].time_window_minutes})
        /\ \A i \in 1..Len(error_groups), r \in DOMAIN alert_rules :
              (/\ Joined(alert_rules[r], error_groups[i])
               /\ \A k \in 1..Len(errors) :
                     errors[k].group_id = error_groups[i].id =>
                        errors[k].created_at <= clock - alert_rules[r].time_window_minutes)
                 => ~ \E v \in view : v.rule_id = r /\ v.group_id = error_groups[i].id

\* the event inserted last has the older created_at and lies outside the
\* window of r2, the event inserted first lies inside: r2 counts one event
C20_Witness ==
    LET view == ActiveRuleViolations(alert_rules, error_groups, errors, clock)
    IN  \E k1, k2 \in 1..Len(errors) :
           /\ k1 < k2
           /\ errors[k1].group_id = errors[k2].group_id
           /\ errors[k1].created_at > clock - 60
           /\ errors[k2].created_at <= clock - 60
           /\ \E v \in view : /\ v.rule_id = "r2"
                              /\ v.group_id = errors[k1].group_id
                              /\ v.window_count = 1

C15_ViewErrorAbortsRun ==
    [][\A p \in OneRun :
          /\ FetchViolationsError(p) =>
                /\ run'[p].pc = "aborted"
                /\ run'[p].violations = {}
                /\ sent' = sent /\ alerts' = alerts
          /\ run[p].pc = "aborted" =>
                /\ sent' = sent /\ alerts' = alerts
                /\ run'[p].pc \in {"aborted", "loop", "idle"}
                /\ run'[p].pc = "loop" =>
                      run'[p].violations =
                         ActiveRuleViolations(alert_rules, error_groups, errors, clock)]_vars

\* the read failed while the view held a violation: nothing was sent or logged
C15_Witness ==
    \E p \in OneRun :
        /\ run[p].pc = "aborted"
        /\ ActiveRuleViolations(alert_rules, error_groups, errors, clock) # {}
        /\ sent = << >>
        /\ alerts = << >>

(***************************************************************************)
(* Channels (SpecChannels).                                                *)
(***************************************************************************)
\* C16: a dispatch for a rule whose channel is webhook or slack makes an HTTP
\* POST to the rule's channel_webhook_url, a dispatch for any other channel
\* makes none.
C16_HttpPostIffWebhookOrSlack ==
    \A k \in 1..Len(sent) :
        sent[k].http <=> (alert_rules[sent[k].rule_id].channel \in {"webhook", "slack"})

(***************************************************************************)
(* Termination (SpecHang) and overlap (SpecOverlap).                       *)
(***************************************************************************)
\* C17: every processAlerts run that has started eventually returns, also
\* when the webhook never answers.
C17_RunTerminates ==
    \A p \in OneRun : (run[p].pc \notin NotRunning) ~> (run[p].pc \in NotRunning)

\* C18: at most one processAlerts run is executing at any time.
C18_SingleActiveRun ==
    Cardinality({p \in Runs : run[p].pc \notin NotRunning}) <= 1

(***************************************************************************)
(* Re-alerting (Spec).                                                     *)
(***************************************************************************)
\* C19: a run takes every row of the view; for a pair with no alerts row
\* younger than 60 minutes the ledger query, when storage answers, leads to
\* the rule being loaded, the notification being sent for that pair and a new
\* alerts row for that pair being written.
C19_RealertAfterCooldown ==
    [][\A p \in OneRun :
          /\ FetchViolations(p) =>
                run'[p].violations =
                   ActiveRuleViolations(alert_rules, error_groups, errors, clock)
          /\ \A v \in run[p].violations :
                (/\ CheckRecentAlerts(p, v)
                 /\ run'[p].violations = run[p].violations \ {v}
                 /\ \A k \in 1..Len(alerts) :
                       (alerts[k].rule_id = v.rule_id /\ alerts[k].group_id = v.group_id)
                          => clock - alerts[k].created_at >= CooldownMinutes)
                   => run'[p].pc = "rule" /\ run'[p].violation = v
          /\ LoadRule(p) =>
                run'[p].pc = "send" /\ run'[p].violation = run[p].violation
          /\ (\E o \in FetchOutcomes \cup {"console"} : SendNotification(p, o)) =>
                /\ Len(sent') = Len(sent) + 1
                /\ sent'[Len(sent')].rule_id = run[p].violation.rule_id
                /\ sent'[Len(sent')].group_id = run[p].violation.group_id
                /\ run'[p].pc = "log" /\ run'[p].violation = run[p].violation
          /\ LogAlert(p) =>
                /\ Len(alerts') = Len(alerts) + 1
                /\ alerts'[Len(alerts')].rule_id = run[p].violation.rule_id
                /\ alerts'[Len(alerts')].group_id = run[p].violation.group_id
                /\ alerts'[Len(alerts')].created_at = clock]_vars

\* a pair alerted at 0 is still violated at 61: it was notified again and a
\* second alerts row was written
C19_Witness ==
    /\ Len(alerts) = 2 /\ Len(sent) = 2
    /\ alerts[1].rule_id = alerts[2].rule_id
    /\ alerts[1].group_id = alerts[2].group_id
    /\ alerts[2].created_at - alerts[1].created_at >= CooldownMinutes
    /\ sent[2].rule_id = alerts[2].rule_id
    /\ sent[2].group_id = alerts[2].group_id
    /\ sent[2].at = alerts[2].created_at

(***************************************************************************)
(* What recording an event writes (SpecIngest, SpecEvaluate).              *)
(***************************************************************************)
\* C28: a committed insert changes, of the groups that exist, only the group
\* of the row's grouping key, and of it only count, last_seen_at and status;
\* id, fingerprint, message, name and first_seen_at of that group, every
\* other group, every existing errors row, alert_rules and alerts stay.
C28_IngestFrame ==
    [][\A t \in Txs :
          (tx[t].pc = "begun" /\ tx'[t].pc = "returned" /\ tx'[t].persisted) =>
             /\ Len(error_groups') >= Len(error_groups)
             /\ \A i \in 1..Len(error_groups) :
                   IF error_groups[i].fingerprint = GroupingKey(tx[t].row)
                   THEN /\ error_groups'[i].id = error_groups[i].id
                        /\ error_groups'[i].fingerprint = error_groups[i].fingerprint
                        /\ error_groups'[i].message = error_groups[i].message
                        /\ error_groups'[i].name = error_groups[i].name
                        /\ error_groups'[i].first_seen_at = error_groups[i].first_seen_at
                   ELSE error_groups'[i] = error_groups[i]
             /\ Len(errors') = Len(errors) + 1
             /\ \A k \in 1..Len(errors) : errors'[k] = errors[k]
             /\ alert_rules' = alert_rules
             /\ alerts' = alerts]_vars

\* a group seen again at a later time, by an event whose message is not the
\* group's, next to another group
C28_Witness ==
    \E i, j \in 1..Len(error_groups) :
        /\ i # j
        /\ error_groups[i].count >= 2
        /\ error_groups[i].last_seen_at > error_groups[i].first_seen_at
        /\ \E k \in 1..Len(errors) :
              /\ errors[k].group_id = error_groups[i].id
              /\ errors[k].message # error_groups[i].message
        /\ error_groups[j].count >= 1

\* C29: in every row of the view the number of events inside the window is
\* at most the stored count of the group.
C29_WindowCountAtMostTotal ==
    \A v \in ActiveRuleViolations(alert_rules, error_groups, errors, clock) :
        v.window_count <= v.total_count

\* a violation whose group has events outside the window as well
C29_Witness ==
    \E v \in ActiveRuleViolations(alert_rules, error_groups, errors, clock) :
        /\ v.window_count >= 1
        /\ v.window_count < v.total_count

(***************************************************************************)
(* What a processAlerts run writes, and its storage-error branches (Spec). *)
(***************************************************************************)
\* C23: no step of a processAlerts run, whatever the channel and the storage
\* answer, changes a row of error_groups, errors or alert_rules; the only
\* table it writes is alerts, and there it only appends.
C23_RunWritesOnlyAlerts ==
    [][(run' # run \/ sent' # sent \/ alerts' # alerts) =>
          /\ error_groups' = error_groups
          /\ errors' = errors
          /\ alert_rules' = alert_rules
          /\ Len(alerts') >= Len(alerts)
          /\ \A k \in 1..Len(alerts) : alerts'[k] = alerts[k]]_vars

\* a run whose webhook call threw has finished and written its alerts row
C23_Witness ==
    \E p \in OneRun, k \in 1..Len(sent), a \in 1..Len(alerts) :
        /\ run[p].pc = "idle"
        /\ sent[k].outcome = "threw"
        /\ alerts[a].rule_id = sent[k].rule_id
        /\ alerts[a].group_id = sent[k].group_id
        /\ \E i \in 1..Len(error_groups) :
              error_groups[i].id = sent[k].group_id /\ error_groups[i].status = "open"

\* C27: when the ledger query fails for a violation, or its rule row cannot
\* be loaded, nothing is sent and no alerts row is written, the run lets go
\* of that violation and goes on with every violation that remains.
C27_StorageErrorSkipsOneViolation ==
    [][\A p \in OneRun :
          /\ \A v \in run[p].violations :
                CheckRecentAlertsError(p, v) =>
                   /\ sent' = sent /\ alerts' = alerts
                   /\ run'[p].violation = NoViolation
                   /\ run'[p].violations = run[p].violations \ {v}
                   /\ run'[p].pc = IF run'[p].violations = {} THEN "idle" ELSE "loop"
          /\ LoadRuleError(p) =>
                /\ sent' = sent /\ alerts' = alerts
                /\ run'[p].violation = NoViolation
                /\ run'[p].violations = run[p].violations
                /\ run'[p].pc = IF run[p].violations = {} THEN "idle" ELSE "loop"]_vars

\* the batch read at time 0 held the violations of r1 and r2 for a group with
\* two events; r1's was let go with nothing sent and no ledger row to
\* suppress it, r2's is still to be processed
C27_Witness ==
    \E p \in OneRun :
        /\ clock = 0
        /\ run[p].pc = "loop"
        /\ Cardinality(run[p].violations) = 1
        /\ \A v \in run[p].violations : v.rule_id = "r2" /\ v.window_count = 2
        /\ sent = << >>
        /\ alerts = << >>

(***************************************************************************)
(* Rules of the other condition types (SpecConditions).                    *)
(***************************************************************************)
\* C21: an active new_error rule fires once for every group: an evaluation
\* that observes a group yields the rule's violation for it unless the rule
\* has fired for that group before (and was then notified), and the rule is
\* notified at most once for a group.
C21_NewErrorFiresOncePerGroup ==
    [][\A p \in OneRun :
          FetchViolations(p) =>
             \A r \in RuleIds, i \in 1..Len(error_groups) :
                (alert_rules[r].active /\ alert_rules[r].condition_type = "new_error") =>
                   /\ \/ \E v \in ActiveRuleViolations(alert_rules, error_groups,
                                                       errors, clock) :
                            v.rule_id = r /\ v.group_id = error_groups[i].id
                      \/ \E k \in 1..Len(sent) :
                            sent[k].rule_id = r /\ sent[k].group_id = error_groups[i].id
                   /\ Cardinality({k \in 1..Len(sent) :
                         sent[k].rule_id = r /\ sent[k].group_id = error_groups[i].id})
                         <= 1]_vars

\* C22: an active critical rule fires whenever a new event of severity
\* critical is linked to an open group: an evaluation that finds such an
\* event yields the rule's violation for the group unless the rule has
\* already been notified for that group at or after the event.
C22_CriticalFiresOnCriticalEvent ==
    [][\A p \in OneRun :
          FetchViolations(p) =>
             \A r \in RuleIds, i \in 1..Len(error_groups), e \in 1..Len(errors) :
                (/\ alert_rules[r].active
                 /\ alert_rules[r].condition_type = "critical"
                 /\ error_groups[i].status = "open"
                 /\ errors[e].group_id = error_groups[i].id
                 /\ errors[e].severity = "critical") =>
                   \/ \E v \in ActiveRuleViolations(alert_rules, error_groups,
                                                    errors, clock) :
                         v.rule_id = r /\ v.group_id = error_groups[i].id
                   \/ \E k \in 1..Len(sent) :
                         /\ sent[k].rule_id = r
                         /\ sent[k].group_id = error_groups[i].id]_vars

(***************************************************************************)
(* Operator edits between the read of the view and the dispatch            *)
(* (SpecStale).                                                            *)
(***************************************************************************)
\* C26: at the moment a notification is sent the rule is active and the
\* group is open, and an alerts row is written only for such a pair.
C26_SendsOnlyWhileActiveAndOpen ==
    [][\A p \in OneRun :
          ((\E o \in FetchOutcomes \cup {"console"} : SendNotification(p, o))
              \/ LogAlert(p)) =>
             /\ alert_rules[run[p].violation.rule_id].active
             /\ \A i \in 1..Len(error_groups) :
                   error_groups[i].id = run[p].violation.group_id
                      => error_groups[i].status = "open"]_vars

(***************************************************************************)
(* generateFingerprint (SpecFingerprint).                                  *)
(***************************************************************************)
\* djb2 on a 32-bit word: hash * 33 + c, seed 5381
Djb2Step(h, c) ==
    LET lo == h.lo * 33 + c
    IN  [hi |-> (h.hi * 33 + lo \div Word) % Word, lo |-> lo % Word]

RECURSIVE Djb2(_, _)
Djb2(h, str) ==
    IF str = << >> THEN h
    ELSE LET next == Djb2Step(h, Head(str))
         IN  IF next.lo \in 0..(Word - 1) THEN Djb2(next, Tail(str)) ELSE next

\* the error a payload was built from
ErrorOf(row) == [name |-> row.name, message |-> row.message, stack |-> row.stack]

\* C25: the fingerprint captureError puts into the payload is the hexadecimal
\* rendering of the djb2 hash (seed 5381, hash * 33 + character code) of name,
\* message and the first 3 stack frames joined; errors that agree on name,
\* message and the first 3 frames get the same fingerprint, whatever their
\* later frames; an error without a stack gets the fingerprint of name and
\* message alone.
C25_FingerprintIsDjb2Hex ==
    /\ \A t \in Txs :
          tx[t].pc = "begun" =>
             /\ tx[t].row.fingerprint =
                   toString16(Djb2(Seed, FingerprintString(ErrorOf(tx[t].row))))
             /\ tx[t].row.stack = NoStack =>
                   tx[t].row.fingerprint =
                      generateFingerprint([ErrorOf(tx[t].row) EXCEPT !.stack = NoStack])
    /\ \A t, u \in Txs :
          (/\ tx[t].pc = "begun" /\ tx[u].pc = "begun"
           /\ tx[t].row.name = tx[u].row.name
           /\ tx[t].row.message = tx[u].row.message
           /\ StackLines(tx[t].row.stack) = StackLines(tx[u].row.stack))
             => tx[t].row.fingerprint = tx[u].row.fingerprint

(***************************************************************************)
(* captureError and withErrorCapture (SpecCapture).                        *)
(***************************************************************************)
\* C24: a fingerprint in the row's context is the grouping key as it stands:
\* the row is linked to the group with exactly that fingerprint, and rows
\* with the same fingerprint share a group whatever their message, name and
\* stack; a fingerprint in the extras passed to captureError replaces the
\* generated one in the payload.
C24_ExplicitFingerprintVerbatim ==
    [][/\ \A t \in AlertTxs, e \in ThrownErrors, c \in Contexts :
             (CaptureError(t, CapturePayload(e, c)) /\ c.extras.fingerprint # NULL)
                => tx'[t].row.fingerprint = c.extras.fingerprint
       /\ \A k \in 1..Len(errors') :
             errors'[k].fingerprint # NULL =>
                /\ \E i \in 1..Len(error_groups') :
                      /\ error_groups'[i].id = errors'[k].group_id
                      /\ error_groups'[i].fingerprint = errors'[k].fingerprint
                /\ \A j \in 1..Len(errors') :
                      errors'[j].fingerprint = errors'[k].fingerprint
                         => errors'[j].group_id = errors'[k].group_id]_vars

\* two events with different messages, both captured with the caller's
\* fingerprint "fpA", are in one group; an event with a generated
\* fingerprint is in another
C24_Witness ==
    \E j, k, l \in 1..Len(errors) :
        /\ errors[j].fingerprint = "fpA" /\ errors[k].fingerprint = "fpA"
        /\ errors[j].message # errors[k].message
        /\ errors[j].group_id = errors[k].group_id
        /\ errors[l].fingerprint \notin {"fpA", NULL}
        /\ errors[l].message = errors[j].message
        /\ errors[l].group_id # errors[j].group_id

\* C30: when the handler under withErrorCapture throws, the error is captured
\* with severity critical, captureError comes back to the wrapper whether or
\* not the row was persisted, and the wrapper answers with status 500: no
\* exception leaves the wrapper.
C30_WrapperAlwaysResponds ==
    \A t \in Txs :
        /\ (tx[t].via = "withErrorCapture" /\ tx[t].pc = "begun")
              => tx[t].row.severity = "critical"
        /\ (tx[t].via = "withErrorCapture" /\ tx[t].pc = "returned")
              => tx[t].outcome = "resolved"
        /\ tx[t].outcome # "escaped"

\* the wrapper has answered 500 for an error whose insert failed
C30_Witness ==
    \E t \in Txs :
        /\ tx[t].pc = "returned"
        /\ tx[t].via = NULL
        /\ tx[t].outcome = "500"
        /\ ~tx[t].persisted

====
